---------------------------- MODULE Spec2Model ----------------------------
(***************************************************************************)
(* Model of share/eds/eds.go: WriteEDS serialises an extended data square  *)
(* (EDS) as a CARv1 stream [ header | leaves in quadrant order | inner     *)
(* nodes ].  Hashes are modelled as terms of a free algebra (an injective  *)
(* hash), byte strings as sequences of 0..255.                             *)
(***************************************************************************)
EXTENDS Integers, Sequences, FiniteSets, TLC

\* ------------------------------------------------------------------ bounds
\* largest original-data width k (the square is 2k x 2k) of a single call
MaxK == 2
\* largest original-data width k when two calls run concurrently
MaxKConc == 1
\* share contents are drawn from the patterns 0..MaxPattern
MaxPattern == 1
\* the blockstore enumerates its keys rotated by 0..MaxRot, or backwards
MaxRot == 1
\* bytes of a share after its namespace
BodySize == 1

\* ------------------------------------------------------- program constants
\* share[:8]: the length of a namespace id
NamespaceSize == 8
\* car.CarHeader{Version: 1}
CarVersion == 1

ShareSize == NamespaceSize + BodySize

\* appconsts.ParitySharesNamespaceID: eight 0xFF bytes
ParitySharesNamespaceID == [i \in 1..NamespaceSize |-> 255]

ErrEmptySquare == "share: importing empty data"
ErrCanceled == "context canceled"
ErrIO == "sink write failed"

Calls == {"a", "b"}
CallerSquares == {"m1", "m2"}
SquareIds == {"m1", "m2", "ra", "rb"}

\* ------------------------------------------------------------ byte helpers
Min(x, y) == IF x < y THEN x ELSE y

\* int(math.Sqrt(float64(n))): the integer square root
Isqrt(n) == CHOOSE r \in 0..n : r * r <= n /\ (r + 1) * (r + 1) > n

\* ----------------------------------------------------- hashes, cids, nodes
\* nmt.Sha256Namespace8FlaggedLeaf: the hash of a namespace-prefixed leaf
Sha256Namespace8FlaggedLeaf(leaf) == <<"leaf", leaf>>

\* nmt.Sha256Namespace8FlaggedInner: the hash of left || right
Sha256Namespace8FlaggedInner(data) == <<"inner", data>>

\* ipld.CidFromNamespacedSha256: the CID (nmt codec) of a namespaced hash
CidFromNamespacedSha256(h) == [codec |-> "nmt", hash |-> h]

\* the key AllKeysChan hands out: cid.NewCidV1(cid.Raw, multihash)
RawCid(h) == [codec |-> "raw", hash |-> h]

NoCid == [codec |-> "none", hash |-> <<>>]

\* ------------------------------------------------------------- the square
\* rsmt2d.ExtendedDataSquare: width, the shares row by row, the memoised
\* roots, and the tree constructor (wrapper square size, node visitor)
NoSquare ==
    [width |-> 0, data |-> <<>>, computed |-> FALSE, rowRoots |-> <<>>,
     colRoots |-> <<>>, squareSize |-> 0, visitor |-> "none"]

\* eds.GetCell(r, c): a copy of the share at row r, column c
GetCell(sq, r, c) == sq.data[r * sq.width + c + 1]

\* eds.Row(r): a copy of row r
Row(sq, r) == [n \in 1..sq.width |-> GetCell(sq, r, n - 1)]

\* share.ExtractEDS: the shares of the square, row by row
ExtractEDS(sq) ==
    [n \in 1..(sq.width * sq.width) |->
        Row(sq, (n - 1) \div sq.width)[((n - 1) % sq.width) + 1]]

\* rsmt2d.ImportExtendedDataSquare(shares, codec, tree.Constructor)
ImportExtendedDataSquare(shares, squareSize, visitor) ==
    [width |-> Isqrt(Len(shares)), data |-> shares, computed |-> FALSE,
     rowRoots |-> <<>>, colRoots |-> <<>>, squareSize |-> squareSize,
     visitor |-> visitor]

\* wrapper.ErasuredNamespacedMerkleTree.Push: the leaf of the row/column tree
\* `axis` at position `cell`: the share under its own namespace inside the
\* original quadrant, under the parity namespace outside it
PushLeaf(data, axis, cell, squareSize) ==
    IF axis + 1 > squareSize \/ cell + 1 > squareSize
    THEN ParitySharesNamespaceID \o data
    ELSE SubSeq(data, 1, NamespaceSize) \o data

\* nmt getSplitPoint: the largest power of two smaller than n
RECURSIVE SplitFrom(_, _)
SplitFrom(p, n) == IF 2 * p < n THEN SplitFrom(2 * p, n) ELSE p
SplitPoint(n) == SplitFrom(1, n)

\* nmt computeRoot: the root hash and, in visiting order, every node handed
\* to the visitor (leaves with one child, inner nodes with two)
RECURSIVE ComputeRoot(_)
ComputeRoot(leaves) ==
    IF Len(leaves) = 1
    THEN LET h == Sha256Namespace8FlaggedLeaf(leaves[1])
         IN [hash |-> h, visits |-> <<[hash |-> h, children |-> <<leaves[1]>>]>>]
    ELSE LET k == SplitPoint(Len(leaves))
             l == ComputeRoot(SubSeq(leaves, 1, k))
             r == ComputeRoot(SubSeq(leaves, k + 1, Len(leaves)))
             h == Sha256Namespace8FlaggedInner(<<l.hash, r.hash>>)
         IN [hash |-> h,
             visits |-> l.visits \o r.visits
                        \o <<[hash |-> h, children |-> <<l.hash, r.hash>>]>>]

\* the tree of row i / column i of the square
RowTree(sq, i) ==
    ComputeRoot([n \in 1..sq.width |->
        PushLeaf(GetCell(sq, i, n - 1), i, n - 1, sq.squareSize)])
ColTree(sq, i) ==
    ComputeRoot([n \in 1..sq.width |->
        PushLeaf(GetCell(sq, n - 1, i), i, n - 1, sq.squareSize)])

\* rsmt2d computeRoots: row i then column i, for every i
RECURSIVE VisitsUpTo(_, _)
VisitsUpTo(sq, n) ==
    IF n = 0 THEN <<>>
    ELSE VisitsUpTo(sq, n - 1) \o RowTree(sq, n - 1).visits
                               \o ColTree(sq, n - 1).visits

\* eds.RowRoots() / eds.ColRoots(): the memoised roots; the first access
\* builds every row and column tree, which visits their nodes
EnsureRoots(sq) ==
    IF sq.computed THEN [sq |-> sq, visits |-> <<>>]
    ELSE [sq |-> [sq EXCEPT !.computed = TRUE,
                     !.rowRoots = [n \in 1..sq.width |-> RowTree(sq, n - 1).hash],
                     !.colRoots = [n \in 1..sq.width |-> ColTree(sq, n - 1).hash]],
          visits |-> VisitsUpTo(sq, sq.width)]

\* ipld.NmtNodeAdder.VisitInnerNodes: leaves are ignored, an inner node is
\* added to the batch under its hash with left || right as its data
VisitInnerNodes(visits) ==
    LET inner == SelectSeq(visits, LAMBDA v : Len(v.children) = 2)
    IN [n \in 1..Len(inner) |-> [key |-> inner[n].hash, data |-> inner[n].children]]

\* ------------------------------------------------------------- blockstore
Keys(st) == {st[n].key : n \in 1..Len(st)}

\* blockstore.Put, one node after the other: a block under a key already
\* present is not stored again, so the first block of every key stays
PutMany(st, nodes) ==
    LET all == st \o nodes
        firsts == {n \in 1..Len(all) : \A m \in 1..(n - 1) : all[m].key # all[n].key}
        Nth(i) == CHOOSE n \in firsts : Cardinality({m \in firsts : m < n}) = i - 1
    IN [i \in 1..Cardinality(firsts) |-> all[Nth(i)]]

\* blockstore.Get: the block stored under the multihash of the cid
Get(st, k) == st[CHOOSE n \in 1..Len(st) : st[n].key = k.hash]

\* blockstore.AllKeysChan: the keys, in an order the datastore chooses: here
\* the order of insertion rotated by 0..MaxRot, or the reverse of it
EnumOrders(st) ==
    LET n == Len(st)
        Fwd(r) == [i \in 1..n |-> RawCid(st[((i - 1 + r) % n) + 1].key)]
        Bwd == [i \in 1..n |-> RawCid(st[n - i + 1].key)]
    IN IF n = 0 THEN {<<>>}
       ELSE {Fwd(r) : r \in 0..Min(MaxRot, n - 1)} \cup {Bwd}

\* --------------------------------------------------- input: caller squares
\* the last byte of the namespace of the original share at (r, c)
NsByte(k, p, r, c) ==
    IF p = 0 THEN r * k + c ELSE IF p = 1 THEN 1 ELSE (r + c) * (p - 1)

\* the share at (r, c) of the square of original width k with contents p:
\* p = 0 all shares differ, p = 1 all original shares are equal and all
\* parity shares are equal, p >= 2 the square is symmetric
NewShare(k, p, r, c) ==
    LET id == r * 2 * k + c
        base == IF p = 0 THEN id ELSE IF p = 1 THEN 7 ELSE r * c + p
        pbase == IF p = 0 THEN 100 + 3 * id ELSE IF p = 1 THEN 40 ELSE 60 + r * c + p
    IN IF r < k /\ c < k
       THEN [i \in 1..ShareSize |->
                IF i < NamespaceSize THEN 0
                ELSE IF i = NamespaceSize THEN NsByte(k, p, r, c)
                ELSE (base + i) % 256]
       ELSE [i \in 1..ShareSize |-> (pbase + i) % 256]

\* the caller's square: roots not yet computed, the caller's own trees
NewSquare(k, p) ==
    [width |-> 2 * k,
     data |-> [n \in 1..(4 * k * k) |->
                  NewShare(k, p, (n - 1) \div (2 * k), (n - 1) % (2 * k))],
     computed |-> FALSE, rowRoots |-> <<>>, colRoots |-> <<>>,
     squareSize |-> k, visitor |-> "none"]

\* ------------------------------------------------------ eds.go: functions
\* prependNamespace, a bug: quadrant 1 is tagged like quadrant 0
PrependOwnNamespace(quadrant, share) ==
    IF quadrant \in {0, 1} THEN SubSeq(share, 1, NamespaceSize) \o share
    ELSE ParitySharesNamespaceID \o share

\* prependNamespace: append(share[:8], share...) in quadrant 0,
\* append(ParitySharesNamespaceID, share...) in quadrants 1, 2, 3
prependNamespace(quadrant, share) ==
    IF quadrant = 0 THEN SubSeq(share, 1, NamespaceSize) \o share
    ELSE ParitySharesNamespaceID \o share

\* getQuadrantCells, a bug: the cells of quadrants 1 and 2 are exchanged
SwappedQuadrantCells(sq, i, j) ==
    LET quadrantWidth == sq.width \div 2
    IN [q \in 0..3 |->
           IF q = 0 THEN GetCell(sq, i, j)
           ELSE IF q = 1 THEN GetCell(sq, i + quadrantWidth, j)
           ELSE IF q = 2 THEN GetCell(sq, i, j + quadrantWidth)
           ELSE GetCell(sq, i + quadrantWidth, j + quadrantWidth)]

\* getQuadrantCells: the cell of each quadrant at the inner coordinates (i, j)
getQuadrantCells(sq, i, j) ==
    LET quadrantWidth == sq.width \div 2
    IN [q \in 0..3 |->
           IF q = 0 THEN GetCell(sq, i, j)
           ELSE IF q = 1 THEN GetCell(sq, i, j + quadrantWidth)
           ELSE IF q = 2 THEN GetCell(sq, i + quadrantWidth, j)
           ELSE GetCell(sq, i + quadrantWidth, j + quadrantWidth)]

\* make([][]byte, size): an entry not yet assigned
NilShare == <<>>

\* quadrantOrder: shares starts as size nil entries; the n-th pass of the
\* (i, j) loops assigns the four entries quadrant*quadrantSize + innerOffset
quadrantOrder(sq) ==
    LET size == sq.width * sq.width
        quadrantWidth == sq.width \div 2
        quadrantSize == quadrantWidth * quadrantWidth
        Pass[n \in 0..quadrantSize] ==
            IF n = 0 THEN [x \in 0..(size - 1) |-> NilShare]
            ELSE LET i == (n - 1) \div quadrantWidth
                     j == (n - 1) % quadrantWidth
                     cells == getQuadrantCells(sq, i, j)
                     innerOffset == i * quadrantWidth + j
                 IN [x \in 0..(size - 1) |->
                        IF \E q \in 0..3 : x = q * quadrantSize + innerOffset
                        THEN LET q == CHOOSE q \in 0..3 :
                                          x = q * quadrantSize + innerOffset
                             IN prependNamespace(q, cells[q])
                        ELSE Pass[n - 1][x]]
    IN [x \in 1..size |-> Pass[quadrantSize][x - 1]]

\* rootsToCids, a bug: the column roots come first
ColsThenRowsCids(sq) ==
    LET roots == sq.colRoots \o sq.rowRoots
    IN [i \in 1..Len(roots) |-> CidFromNamespacedSha256(roots[i])]

\* rootsToCids: append(eds.RowRoots(), eds.ColRoots()...), each as a cid
rootsToCids(sq) ==
    LET roots == sq.rowRoots \o sq.colRoots
    IN [i \in 1..Len(roots) |-> CidFromNamespacedSha256(roots[i])]

\* odsWidth, a bug: the width of the extended square
EdsWidth(shareCount) == Isqrt(shareCount)

\* initializeWriter: odsWidth := int(math.Sqrt(float64(shareCount)) / 2)
OdsWidth(shareCount) == Isqrt(shareCount) \div 2

\* initializeWriter, a bug: the empty square is let through
NeverEmpty(shareCount) == FALSE

\* initializeWriter: if shareCount == 0 { return nil, ErrEmptySquare }
IsEmptySquare(shareCount) == shareCount = 0

\* initializeWriter, a bug: the batch is committed before the roots are computed
CommitFirst(step) ==
    CASE step = "import" -> "commit"
      [] step = "commit" -> "roots"
      [] step = "roots" -> "exit"

\* initializeWriter: import the shares, compute the roots, commit the batch
InitNext(step) ==
    CASE step = "import" -> "roots"
      [] step = "roots" -> "commit"
      [] step = "commit" -> "exit"

\* WriteEDS, a bug: the proofs are written before the shares
ProofsFirst(stage) ==
    CASE stage = "init" -> "header"
      [] stage = "header" -> "proofs"
      [] stage = "proofs" -> "quadrants"
      [] stage = "quadrants" -> "return"

\* WriteEDS: initializeWriter, writeHeader, writeQuadrants, writeProofs
NextStage(stage) ==
    CASE stage = "init" -> "header"
      [] stage = "header" -> "quadrants"
      [] stage = "quadrants" -> "proofs"
      [] stage = "proofs" -> "return"

\* the store of a call, a bug: one store for every call
SharedStore(c) == "a"

\* initializeWriter: store := blockstore.NewBlockstore(...), one per call
StoreOf(c) == c

\* the reimported square of a call: eds, err := rsmt2d.ImportExtendedDataSquare
Private(c) == IF c = "a" THEN "ra" ELSE "rb"

\* ------------------------------------------------------- the CAR records
\* car.WriteHeader(&car.CarHeader{Roots: rootCids, Version: 1}, w)
HeaderRecord(rootCids) ==
    [type |-> "header", complete |-> TRUE, version |-> CarVersion,
     roots |-> rootCids, cid |-> NoCid, data |-> <<>>]

\* util.LdWrite(w, cid.Bytes(), data): one length-prefixed block
BlockRecord(cid, data) ==
    [type |-> "block", complete |-> TRUE, version |-> 0, roots |-> <<>>,
     cid |-> cid, data |-> data]

\* writeQuadrants: the block of one share
LeafBlock(share) ==
    BlockRecord(CidFromNamespacedSha256(Sha256Namespace8FlaggedLeaf(share)), share)

\* writeProofs: the block of one node read from the store
ProofBlock(node) ==
    BlockRecord(CidFromNamespacedSha256(Sha256Namespace8FlaggedInner(node.data)),
                node.data)

\* an io.Writer that fails may have taken a part of the record
Truncated(rec) == [rec EXCEPT !.complete = FALSE]

\* the error WriteEDS returns: fmt.Errorf("<phase>: %w", err)
Failure(phase, cause) == [ok |-> FALSE, phase |-> phase, cause |-> cause]
Success == [ok |-> TRUE, phase |-> "", cause |-> ""]
NoResult == [ok |-> FALSE, phase |-> "", cause |-> "running"]


\* ---------------------------------------------------------------- state
VARIABLES
    heap,       \* the squares: the caller's (m1, m2), each call's reimport
    input,      \* the square each call was given
    pc,         \* where each call is
    writer,     \* the writingSession of each call: its eds and its store
    store,      \* the in-memory blockstores
    batch,      \* the nodes each call's batch adder holds uncommitted
    visited,    \* history: the inner nodes each call's visitor received
    sink,       \* the records each call has written to its io.Writer
    idx,        \* writeQuadrants: the number of shares written
    chan,       \* writeProofs: the keys still to come from AllKeysChan
    cancelled,  \* whether each call's context is done
    result,     \* what each call returned
    hist        \* history: the order of roots, commit, reads and cancel

vars ==
    <<heap, input, pc, writer, store, batch, visited, sink, idx, chan,
      cancelled, result, hist>>

NoWriter == [eds |-> "none", store |-> "none"]

NoHist ==
    [committed |-> FALSE, rootsAtCommit |-> FALSE, readBeforeCommit |-> FALSE,
     lateStage |-> FALSE, cancelEarly |-> FALSE]

\* the square and the store of call c's session
Eds(c) == heap[writer[c].eds]
Store(c) == store[writer[c].store]

IsLeafBlock(rec) == rec.type = "block" /\ rec.cid.hash[1] = "leaf"
IsProofBlock(rec) == rec.type = "block" /\ rec.cid.hash[1] = "inner"

\* the complete leaf / proof blocks of a sink, in the order written
LeafSection(s) == SelectSeq(s, LAMBDA rec : rec.complete /\ IsLeafBlock(rec))
ProofSection(s) == SelectSeq(s, LAMBDA rec : rec.complete /\ IsProofBlock(rec))

\* every inner node the visitor received is in the sink
ProofSectionComplete(c) ==
    /\ pc[c] \in {"proofloop", "done"}
    /\ \A n \in 1..Len(visited[c]) :
          \E m \in 1..Len(sink[c]) :
             /\ sink[c][m].complete
             /\ IsProofBlock(sink[c][m])
             /\ sink[c][m].cid.hash = visited[c][n].key

StartState(started) ==
    /\ pc = [c \in Calls |-> IF c \in started THEN "start" ELSE "off"]
    /\ writer = [c \in Calls |-> NoWriter]
    /\ store = [c \in Calls |-> <<>>]
    /\ batch = [c \in Calls |-> <<>>]
    /\ visited = [c \in Calls |-> <<>>]
    /\ sink = [c \in Calls |-> <<>>]
    /\ idx = [c \in Calls |-> 0]
    /\ chan = [c \in Calls |-> <<>>]
    /\ cancelled = [c \in Calls |-> FALSE]
    /\ result = [c \in Calls |-> NoResult]
    /\ hist = [c \in Calls |-> NoHist]

\* one call of WriteEDS on a square of original width 0..MaxK
Init ==
    /\ \E k \in 0..MaxK, p \in 0..MaxPattern :
          heap = [m \in SquareIds |->
                     IF m \in CallerSquares THEN NewSquare(k, p) ELSE NoSquare]
    /\ StartState({"a"})
    /\ input = [c \in Calls |-> "m1"]

\* two concurrent calls, on the same square or on two different squares
InitConc ==
    /\ \E k1 \in 0..MaxKConc, k2 \in 0..MaxKConc, p \in 0..MaxPattern, same \in BOOLEAN :
          /\ heap = [m \in SquareIds |->
                        IF m = "m1" \/ (m = "m2" /\ same) THEN NewSquare(k1, p)
                        ELSE IF m = "m2" THEN NewSquare(k2, (p + 1) % (MaxPattern + 1))
                        ELSE NoSquare]
          /\ input = [c \in Calls |-> IF c = "a" \/ same THEN "m1" ELSE "m2"]
    /\ StartState(Calls)

\* ------------------------------------------------------------ transitions
\* WriteEDS returns res
Return(c, res) ==
    /\ pc' = [pc EXCEPT ![c] = "done"]
    /\ result' = [result EXCEPT ![c] = res]

\* WriteEDS goes on with `target`: a step of initializeWriter, a stage, or
\* the final return nil
Goto(c, target) ==
    LET t == IF target = "exit" THEN NextStage("init") ELSE target
    IN /\ pc' = [pc EXCEPT ![c] = IF t = "return" THEN "done" ELSE t]
       /\ result' = [result EXCEPT ![c] = IF t = "return" THEN Success ELSE @]

\* the visitor of square sq hands its inner nodes to its batch adder
Staged(b, sq, visits) ==
    IF sq.visitor = "none" THEN b
    ELSE [b EXCEPT ![sq.visitor] = @ \o VisitInnerNodes(visits)]

HistStaged(h, sq, visits) ==
    IF sq.visitor = "none" \/ VisitInnerNodes(visits) = <<>> THEN h
    ELSE [h EXCEPT ![sq.visitor].lateStage = @ \/ h[sq.visitor].committed]

\* initializeWriter, lines 73-89: extract the shares, refuse the empty
\* square, reimport the shares with a tree that feeds the batch adder
Import(c) ==
    /\ pc[c] = "start"
    /\ LET shares == ExtractEDS(heap[input[c]])
           shareCount == Len(shares)
       IN IF IsEmptySquare(shareCount)
          THEN /\ Return(c, Failure("share: failure creating eds writer", ErrEmptySquare))
               /\ UNCHANGED <<heap, writer>>
          ELSE /\ heap' = [heap EXCEPT ![Private(c)] =
                              ImportExtendedDataSquare(shares, OdsWidth(shareCount), c)]
               /\ writer' = [writer EXCEPT ![c] =
                                [eds |-> Private(c), store |-> StoreOf(c)]]
               /\ Goto(c, InitNext("import"))
    /\ UNCHANGED <<input, store, batch, visited, sink, idx, chan, cancelled, hist>>

\* initializeWriter, line 91: eds.RowRoots()
ComputeRoots(c) ==
    /\ pc[c] = "roots"
    /\ LET r == EnsureRoots(Eds(c))
       IN /\ heap' = [heap EXCEPT ![writer[c].eds] = r.sq]
          /\ batch' = Staged(batch, r.sq, r.visits)
          /\ visited' = Staged(visited, r.sq, r.visits)
          /\ hist' = HistStaged(hist, r.sq, r.visits)
    /\ Goto(c, InitNext("roots"))
    /\ UNCHANGED <<input, writer, store, sink, idx, chan, cancelled>>

\* the batch adder writes what it holds to the store on its own once the
\* batch is over its size
AsyncFlush(c) ==
    /\ pc[c] \notin {"off", "start", "done"}
    /\ batch[c] # <<>>
    /\ store' = [store EXCEPT ![writer[c].store] = PutMany(@, batch[c])]
    /\ batch' = [batch EXCEPT ![c] = <<>>]
    /\ UNCHANGED <<heap, input, pc, writer, visited, sink, idx, chan, cancelled,
                   result, hist>>

\* initializeWriter, line 93: batchAdder.Commit()
Commit(c) ==
    /\ pc[c] = "commit"
    /\ store' = [store EXCEPT ![writer[c].store] = PutMany(@, batch[c])]
    /\ batch' = [batch EXCEPT ![c] = <<>>]
    /\ hist' = [hist EXCEPT ![c].committed = TRUE,
                            ![c].rootsAtCommit = Eds(c).computed]
    /\ Goto(c, InitNext("commit"))
    /\ UNCHANGED <<heap, input, writer, visited, sink, idx, chan, cancelled>>

\* writeHeader: the cids of the roots, then car.WriteHeader
WriteHeader(c) ==
    /\ pc[c] = "header"
    /\ LET r == EnsureRoots(Eds(c))
       IN /\ heap' = [heap EXCEPT ![writer[c].eds] = r.sq]
          /\ batch' = Staged(batch, r.sq, r.visits)
          /\ visited' = Staged(visited, r.sq, r.visits)
          /\ hist' = HistStaged(hist, r.sq, r.visits)
          /\ sink' = [sink EXCEPT ![c] = Append(@, HeaderRecord(rootsToCids(r.sq)))]
    /\ Goto(c, NextStage("header"))
    /\ UNCHANGED <<input, writer, store, idx, chan, cancelled>>

\* writeQuadrants: one pass of the loop over quadrantOrder(w.eds)
WriteShare(c) ==
    /\ pc[c] = "quadrants"
    /\ LET shares == quadrantOrder(Eds(c))
       IN /\ idx[c] < Len(shares)
          /\ sink' = [sink EXCEPT ![c] = Append(@, LeafBlock(shares[idx[c] + 1]))]
    /\ idx' = [idx EXCEPT ![c] = @ + 1]
    /\ UNCHANGED <<heap, input, pc, writer, store, batch, visited, chan,
                   cancelled, result, hist>>

\* writeQuadrants: the loop is over
QuadrantsDone(c) ==
    /\ pc[c] = "quadrants"
    /\ idx[c] = Len(quadrantOrder(Eds(c)))
    /\ Goto(c, NextStage("quadrants"))
    /\ UNCHANGED <<heap, input, writer, store, batch, visited, sink, idx, chan,
                   cancelled, hist>>

\* writeProofs, line 137: w.store.AllKeysChan(ctx)
AllKeysChan(c) ==
    /\ pc[c] = "proofs"
    /\ \E order \in EnumOrders(Store(c)) : chan' = [chan EXCEPT ![c] = order]
    /\ pc' = [pc EXCEPT ![c] = "proofloop"]
    /\ hist' = [hist EXCEPT ![c].readBeforeCommit = @ \/ ~hist[c].committed]
    /\ UNCHANGED <<heap, input, writer, store, batch, visited, sink, idx,
                   cancelled, result>>

\* writeProofs: one pass of the loop: Get the node, write it under its cid
WriteProof(c) ==
    /\ pc[c] = "proofloop"
    /\ chan[c] # <<>>
    /\ sink' = [sink EXCEPT ![c] = Append(@, ProofBlock(Get(Store(c), Head(chan[c]))))]
    /\ chan' = [chan EXCEPT ![c] = Tail(@)]
    /\ hist' = [hist EXCEPT ![c].readBeforeCommit = @ \/ ~hist[c].committed]
    /\ UNCHANGED <<heap, input, pc, writer, store, batch, visited, idx,
                   cancelled, result>>

\* writeProofs: the channel is closed and drained, return nil
ProofsDone(c) ==
    /\ pc[c] = "proofloop"
    /\ chan[c] = <<>>
    /\ Goto(c, NextStage("proofs"))
    /\ UNCHANGED <<heap, input, writer, store, batch, visited, sink, idx, chan,
                   cancelled, hist>>

\* ------------------------------------------------- cancellation, failures
\* the caller cancels ctx while the call runs
Cancel(c) ==
    /\ pc[c] \notin {"off", "done"}
    /\ ~cancelled[c]
    /\ cancelled' = [cancelled EXCEPT ![c] = TRUE]
    /\ hist' = [hist EXCEPT ![c].cancelEarly = ~ProofSectionComplete(c)]
    /\ UNCHANGED <<heap, input, pc, writer, store, batch, visited, sink, idx,
                   chan, result>>

\* batchAdder.Commit() returns ctx.Err()
CommitCanceled(c) ==
    /\ pc[c] = "commit"
    /\ cancelled[c]
    /\ Return(c, Failure("share: failure creating eds writer", ErrCanceled))
    /\ UNCHANGED <<heap, input, writer, store, batch, visited, sink, idx, chan,
                   cancelled, hist>>

\* car.WriteHeader fails
HeaderWriteFails(c) ==
    /\ pc[c] = "header"
    /\ LET r == EnsureRoots(Eds(c))
       IN /\ heap' = [heap EXCEPT ![writer[c].eds] = r.sq]
          /\ batch' = Staged(batch, r.sq, r.visits)
          /\ visited' = Staged(visited, r.sq, r.visits)
          /\ hist' = HistStaged(hist, r.sq, r.visits)
          /\ \E part \in BOOLEAN :
                sink' = [sink EXCEPT ![c] =
                    IF part THEN Append(@, Truncated(HeaderRecord(rootsToCids(r.sq))))
                    ELSE @]
    /\ Return(c, Failure("share: failure writing carv1 header", ErrIO))
    /\ UNCHANGED <<input, writer, store, idx, chan, cancelled>>

\* util.LdWrite of a share fails
ShareWriteFails(c) ==
    /\ pc[c] = "quadrants"
    /\ LET shares == quadrantOrder(Eds(c))
       IN /\ idx[c] < Len(shares)
          /\ \E part \in BOOLEAN :
                sink' = [sink EXCEPT ![c] =
                    IF part THEN Append(@, Truncated(LeafBlock(shares[idx[c] + 1])))
                    ELSE @]
    /\ Return(c, Failure("share: failure writing shares", ErrIO))
    /\ UNCHANGED <<heap, input, writer, store, batch, visited, idx, chan,
                   cancelled, hist>>

\* AllKeysChan returns ctx.Err()
AllKeysCanceled(c) ==
    /\ pc[c] = "proofs"
    /\ cancelled[c]
    /\ Return(c, Failure("share: failure writing proofs", ErrCanceled))
    /\ UNCHANGED <<heap, input, writer, store, batch, visited, sink, idx, chan,
                   cancelled, hist>>

\* w.store.Get returns ctx.Err()
GetCanceled(c) ==
    /\ pc[c] = "proofloop"
    /\ chan[c] # <<>>
    /\ cancelled[c]
    /\ Return(c, Failure("share: failure writing proofs", ErrCanceled))
    /\ UNCHANGED <<heap, input, writer, store, batch, visited, sink, idx, chan,
                   cancelled, hist>>

\* util.LdWrite of a proof fails
ProofWriteFails(c) ==
    /\ pc[c] = "proofloop"
    /\ chan[c] # <<>>
    /\ \E part \in BOOLEAN :
          sink' = [sink EXCEPT ![c] =
              IF part
              THEN Append(@, Truncated(ProofBlock(Get(Store(c), Head(chan[c])))))
              ELSE @]
    /\ Return(c, Failure("share: failure writing proofs", ErrIO))
    /\ UNCHANGED <<heap, input, writer, store, batch, visited, idx, chan,
                   cancelled, hist>>

\* AllKeysChan's goroutine sees ctx.Done(), stops and closes the channel:
\* the range loop of writeProofs ends as if the keys were exhausted
ChanClosedEarly(c) ==
    /\ pc[c] = "proofloop"
    /\ chan[c] # <<>>
    /\ cancelled[c]
    /\ chan' = [chan EXCEPT ![c] = <<>>]
    /\ UNCHANGED <<heap, input, pc, writer, store, batch, visited, sink, idx,
                   cancelled, result, hist>>

Steps(c) ==
    \/ Import(c)
    \/ ComputeRoots(c)
    \/ AsyncFlush(c)
    \/ Commit(c)
    \/ WriteHeader(c)
    \/ WriteShare(c)
    \/ QuadrantsDone(c)
    \/ AllKeysChan(c)
    \/ WriteProof(c)
    \/ ProofsDone(c)

Faults(c) ==
    \/ Cancel(c)
    \/ CommitCanceled(c)
    \/ HeaderWriteFails(c)
    \/ ShareWriteFails(c)
    \/ AllKeysCanceled(c)
    \/ GetCanceled(c)
    \/ ProofWriteFails(c)
    \/ ChanClosedEarly(c)

Next == \E c \in Calls : Steps(c) \/ Faults(c)

\* no cancellation and a sink that takes every write
NextConc == \E c \in Calls : Steps(c)

\* one call, with cancellation and write failures
Spec == Init /\ [][Next]_vars

\* two concurrent calls
SpecConc == InitConc /\ [][NextConc]_vars


\* ----------------------------------------------- the archive, as specified
\* the quadrant of the cell (r, c) of a square of original width k
QuadrantAt(k, r, c) == (IF r >= k THEN 2 ELSE 0) + (IF c >= k THEN 1 ELSE 0)

\* the place (from 1) of the cell (r, c) in the leaf section:
\* q*k*k + (i*k + j) for the inner coordinates (i, j) of quadrant q
ReaderPosition(k, r, c) == QuadrantAt(k, r, c) * k * k + (r % k) * k + (c % k) + 1

\* the row and the column offset of quadrant q
RowOffset(k, q) == IF q \in {2, 3} THEN k ELSE 0
ColOffset(k, q) == IF q \in {1, 3} THEN k ELSE 0

\* the tagged form of a share of quadrant q
Tagged(q, share) ==
    (IF q = 0 THEN SubSeq(share, 1, NamespaceSize)
     ELSE [i \in 1..NamespaceSize |-> 255]) \o share

Done(c) == pc[c] = "done"
Succeeded(c) == pc[c] = "done" /\ result[c].ok
HasSession(c) == writer[c].eds # "none"

\* ------------------------------------------------------------------ C1
\* C1: in every sink, at every moment (so in every prefix, also the one a
\* failed call leaves), the header is the first record and only the first,
\* and once an inner-node block is written no header and no leaf follows.
C1_SectionOrder ==
    \A c \in Calls : \A i \in 1..Len(sink[c]) :
        /\ (sink[c][i].type = "header") <=> (i = 1)
        /\ IsProofBlock(sink[c][i]) =>
              \A j \in (i + 1)..Len(sink[c]) : IsProofBlock(sink[c][j])

\* a failed call has left a header, leaves and at least two proofs
C1_Witness ==
    \E c \in Calls :
        /\ Done(c) /\ ~result[c].ok
        /\ Len(LeafSection(sink[c])) >= 4
        /\ Len(ProofSection(sink[c])) >= 2

\* ------------------------------------------------------------------ C2
\* C2: for the square of width W = 2k, quadrantOrder returns W*W entries;
\* the entry at q*k*k + (i*k + j) is the tagged share of cell (i, j),
\* (i, j+k), (i+k, j), (i+k, j+k) for q = 0, 1, 2, 3; no entry is left
\* empty, the entries are the cells of the square each taken once, and the
\* leaf section written is the beginning of that sequence.
C2_QuadrantOrder ==
    \A c \in Calls : HasSession(c) =>
        LET sq == Eds(c)
            W == sq.width
            k == W \div 2
            out == quadrantOrder(sq)
            written == LeafSection(sink[c])
            Cells == (0..(W - 1)) \X (0..(W - 1))
        IN /\ Len(out) = W * W
           /\ \A q \in 0..3, i \in 0..(k - 1), j \in 0..(k - 1) :
                 out[q * k * k + (i * k + j) + 1] =
                     prependNamespace(q, GetCell(sq, i + RowOffset(k, q),
                                                    j + ColOffset(k, q)))
           /\ \A x \in 1..(W * W) : out[x] # NilShare
           /\ \A rc \in Cells :
                 Cardinality({x \in 1..(W * W) :
                                 SubSeq(out[x], NamespaceSize + 1, Len(out[x]))
                                     = GetCell(sq, rc[1], rc[2])})
                 = Cardinality({rd \in Cells :
                                 GetCell(sq, rd[1], rd[2]) = GetCell(sq, rc[1], rc[2])})
           /\ Len(written) <= W * W
           /\ \A n \in 1..Len(written) : written[n].data = out[n]

\* the sixteen leaves of a square of width 4 whose shares all differ are written
C2_Witness ==
    \E c \in Calls :
        /\ HasSession(c)
        /\ Eds(c).width = 4
        /\ Len(LeafSection(sink[c])) = 16
        /\ \A x, y \in 1..16 : x # y => Eds(c).data[x] # Eds(c).data[y]

\* ------------------------------------------------------------------ C3
\* C3: every leaf written is the share of the caller's square at the cell
\* its place stands for, unchanged, behind a tag: the share's own first 8
\* bytes in quadrant 0, eight 0xFF bytes in quadrants 1, 2 and 3.
C3_Tagging ==
    \A c \in Calls :
        LET m == heap[input[c]]
            k == m.width \div 2
            written == LeafSection(sink[c])
        IN \A r \in 0..(m.width - 1), cc \in 0..(m.width - 1) :
              ReaderPosition(k, r, cc) <= Len(written) =>
                  written[ReaderPosition(k, r, cc)].data =
                      Tagged(QuadrantAt(k, r, cc), GetCell(m, r, cc))

\* a leaf of quadrant 0 and a leaf of each parity quadrant are written
C3_Witness ==
    \E c \in Calls :
        /\ heap[input[c]].width = 4
        /\ Len(LeafSection(sink[c])) = 16
        /\ LeafSection(sink[c])[1].data[NamespaceSize] # 255
        /\ LeafSection(sink[c])[16].data[NamespaceSize] = 255

\* ------------------------------------------------------------------ C4
\* C4: the header written for a square of original width k >= 1 declares
\* version 1 and 4k roots: the cids of the row roots 0..2k-1 and then of the
\* column roots 0..2k-1 of the reimported square.
C4_Header ==
    \A c \in Calls :
        (sink[c] # <<>> /\ sink[c][1].type = "header" /\ sink[c][1].complete) =>
            LET hdr == sink[c][1]
                k == heap[input[c]].width \div 2
                sq == Eds(c)
            IN /\ k >= 1
               /\ hdr.version = 1
               /\ Len(hdr.roots) = 4 * k
               /\ sq.computed
               /\ \A n \in 1..(2 * k) :
                     /\ hdr.roots[n] = [codec |-> "nmt", hash |-> sq.rowRoots[n]]
                     /\ hdr.roots[2 * k + n] = [codec |-> "nmt", hash |-> sq.colRoots[n]]
                     /\ sq.rowRoots[n] = RowTree(sq, n - 1).hash
                     /\ sq.colRoots[n] = ColTree(sq, n - 1).hash

\* the header of a square of width 4 whose row and column roots differ
C4_Witness ==
    \E c \in Calls :
        /\ sink[c] # <<>>
        /\ sink[c][1].type = "header" /\ sink[c][1].complete
        /\ Len(sink[c][1].roots) = 8
        /\ sink[c][1].roots[1] # sink[c][1].roots[5]

\* ------------------------------------------------------------------ C6
\* C6: a call on a square of zero shares writes nothing, and returns the
\* empty-square error.
C6_EmptySquare ==
    \A c \in Calls : heap[input[c]].width = 0 =>
        /\ sink[c] = <<>>
        /\ Done(c) => (~result[c].ok /\ result[c].cause = "share: importing empty data")

\* a call on the empty square has returned
C6_Witness ==
    \E c \in Calls : heap[input[c]].width = 0 /\ Done(c)


\* ------------------------------------------------------------------ C5
\* C5: a call whose context is cancelled before the proof section is
\* complete does not return success, and no call returns success over a
\* sink that lacks a part of the proof section.
C5_CancelReturnsError ==
    \A c \in Calls : Done(c) =>
        /\ hist[c].cancelEarly => ~result[c].ok
        /\ result[c].ok => ProofSectionComplete(c)

\* ------------------------------------------------------------------ C7
\* C7: when a call returns success, the blocks behind the leaf section are
\* exactly the inner nodes its visitor received, each under the cid of its
\* inner hash, and none of them is a leaf.
C7_ProofSectionIsVisitedSet ==
    \A c \in Calls : Succeeded(c) =>
        LET W == Eds(c).width
            tail == SubSeq(sink[c], W * W + 2, Len(sink[c]))
        IN /\ \A n \in 1..Len(tail) : IsProofBlock(tail[n]) /\ tail[n].complete
           /\ {[cid |-> tail[n].cid, data |-> tail[n].data] : n \in 1..Len(tail)}
              = {[cid |-> [codec |-> "nmt", hash |-> visited[c][n].key],
                  data |-> visited[c][n].data] : n \in 1..Len(visited[c])}

\* ------------------------------------------------------------------ C8
\* C8: from a successfully written archive alone: the trees built over the
\* leaves of each row and each column, taken from the leaf section at the
\* places of the quadrant order, have the roots the header declares; every
\* leaf block is addressed by its leaf hash, and every block of the proof
\* section is an inner node of one of these trees, addressed by its hash.
C8_RoundTrip ==
    \A c \in Calls : Succeeded(c) =>
        LET hdr == sink[c][1]
            W == Len(hdr.roots) \div 2
            k == W \div 2
            leaves == LeafSection(sink[c])
            proofs == ProofSection(sink[c])
            RowLeaves(r) == [n \in 1..W |-> leaves[ReaderPosition(k, r, n - 1)].data]
            ColLeaves(cc) == [n \in 1..W |-> leaves[ReaderPosition(k, n - 1, cc)].data]
            InnerOf(t) == {t.visits[n].hash : n \in {x \in 1..Len(t.visits) :
                                                       Len(t.visits[x].children) = 2}}
            AllInner == UNION {InnerOf(ComputeRoot(RowLeaves(r)))
                               \cup InnerOf(ComputeRoot(ColLeaves(r))) : r \in 0..(W - 1)}
        IN /\ hdr.type = "header" /\ hdr.complete
           /\ W >= 2
           /\ Len(leaves) = W * W
           /\ \A n \in 1..Len(leaves) :
                 leaves[n].cid = [codec |-> "nmt", hash |-> <<"leaf", leaves[n].data>>]
           /\ \A r \in 0..(W - 1) :
                 /\ hdr.roots[r + 1] =
                        [codec |-> "nmt", hash |-> ComputeRoot(RowLeaves(r)).hash]
                 /\ hdr.roots[W + r + 1] =
                        [codec |-> "nmt", hash |-> ComputeRoot(ColLeaves(r)).hash]
           /\ \A n \in 1..Len(proofs) :
                 /\ proofs[n].cid.hash \in AllInner
                 /\ proofs[n].cid = [codec |-> "nmt", hash |-> <<"inner", proofs[n].data>>]

\* an archive of a square of width 4 is written, proofs included
C8_Witness ==
    \E c \in Calls :
        /\ Succeeded(c)
        /\ Len(LeafSection(sink[c])) = 16
        /\ Len(ProofSection(sink[c])) = 24

\* ------------------------------------------------------------------ C9
\* what the call c writes, and returns, when it runs alone on its square
\* with nothing failing: the header of the square's roots, the tagged
\* shares in quadrant order, every inner node of the square's trees once
AloneOutput(c) ==
    LET m == heap[input[c]]
        W == m.width
        k == W \div 2
        s == sink[c]
        expHeader ==
            HeaderRecord([n \in 1..(2 * W) |->
                [codec |-> "nmt",
                 hash |-> IF n <= W THEN RowTree(m, n - 1).hash
                          ELSE ColTree(m, n - W - 1).hash]])
        expLeaf(r, cc) ==
            LET t == Tagged(QuadrantAt(k, r, cc), GetCell(m, r, cc))
            IN BlockRecord([codec |-> "nmt", hash |-> <<"leaf", t>>], t)
        visits == VisitsUpTo(m, W)
        expProofs ==
            {BlockRecord([codec |-> "nmt", hash |-> visits[n].hash], visits[n].children) :
                n \in {x \in 1..Len(visits) : Len(visits[x].children) = 2}}
    IN IF W = 0 THEN s = <<>> /\ ~result[c].ok
       ELSE /\ result[c].ok
            /\ Len(s) = 1 + W * W + Cardinality(expProofs)
            /\ s[1] = expHeader
            /\ \A r \in 0..(W - 1), cc \in 0..(W - 1) :
                  s[1 + ReaderPosition(k, r, cc)] = expLeaf(r, cc)
            /\ {s[n] : n \in (W * W + 2)..Len(s)} = expProofs

\* no step changes a square of the caller
CallerSquaresUnchanged == \A m \in CallerSquares : heap'[m] = heap[m]

\* C9: no step of any call changes a cell or a root of a caller's square,
\* and each of two concurrent calls, on the same square or on different
\* ones, ends with the output it produces alone.
C9_Isolation ==
    /\ [](\A c \in Calls : Done(c) => AloneOutput(c))
    /\ [][CallerSquaresUnchanged]_vars

\* two concurrent calls on two different squares have both returned success
C9_Witness ==
    /\ \A c \in Calls : Succeeded(c)
    /\ input["a"] # input["b"]
    /\ heap[input["a"]].data # heap[input["b"]].data

\* ------------------------------------------------------------------ C10
\* C10: both root sets of the reimported square are computed when the batch
\* is committed, the batch is committed when the store is first enumerated
\* or read, and no inner node is staged after the commit.
C10_CommitBarrier ==
    \A c \in Calls :
        /\ hist[c].committed => hist[c].rootsAtCommit
        /\ ~hist[c].readBeforeCommit
        /\ ~hist[c].lateStage
        /\ pc[c] \in {"proofloop"} => hist[c].committed /\ batch[c] = <<>>

\* a node staged before the commit has been read from the store and written
C10_Witness ==
    \E c \in Calls :
        /\ hist[c].committed
        /\ visited[c] # <<>>
        /\ ProofSection(sink[c]) # <<>>

=============================================================================
